---- MODULE Spec2Model ----
(***************************************************************************)
(* Model of the ROM search engine of src/rom-search.py (RomSearchEngine):  *)
(* the in-memory index map, the per-collection cache files, the directory  *)
(* fingerprint, the scanner, the two-stage query pipeline and the ranking, *)
(* with each public call broken into the steps at which other threads and  *)
(* the filesystem can interleave.                                          *)
(*                                                                         *)
(* Text is a sequence of characters, each a string; the two accented       *)
(* characters used are written "E_acute" and "e_acute".  A Python value is *)
(* a tagged record [t |-> type, v |-> payload]; floats are held in         *)
(* hundredths (40.0 is 4000) so that str() of a float can be computed.     *)
(***************************************************************************)
EXTENDS Integers, Sequences, FiniteSets, TLC

(***************************************************************************)
(* Text helpers (str.lower, str.strip, str.split, the in operator).        *)
(***************************************************************************)
UpperToLower ==
    ("A" :> "a") @@ ("B" :> "b") @@ ("C" :> "c") @@ ("D" :> "d") @@ ("E" :> "e") @@ ("F" :> "f") @@
    ("G" :> "g") @@ ("H" :> "h") @@ ("I" :> "i") @@ ("J" :> "j") @@ ("K" :> "k") @@ ("L" :> "l") @@
    ("M" :> "m") @@ ("N" :> "n") @@ ("O" :> "o") @@ ("P" :> "p") @@ ("Q" :> "q") @@ ("R" :> "r") @@
    ("S" :> "s") @@ ("T" :> "t") @@ ("U" :> "u") @@ ("V" :> "v") @@ ("W" :> "w") @@ ("X" :> "x") @@
    ("Y" :> "y") @@ ("Z" :> "z") @@
    ("E_acute" :> "e_acute")

\* str.lower() of one character
LowerChar(c) == IF c \in DOMAIN UpperToLower THEN UpperToLower[c] ELSE c

\* str.lower()
Lower(s) == [i \in 1..Len(s) |-> LowerChar(s[i])]

\* characters str.strip() and str.split() treat as whitespace
IsSpace(c) == c \in {" ", "\t"}

RECURSIVE LStrip(_)
LStrip(s) == IF s # <<>> /\ IsSpace(Head(s)) THEN LStrip(Tail(s)) ELSE s

RECURSIVE RStrip(_)
RStrip(s) ==
    IF s # <<>> /\ IsSpace(s[Len(s)]) THEN RStrip(SubSeq(s, 1, Len(s) - 1)) ELSE s

\* str.strip()
Strip(s) == RStrip(LStrip(s))

\* str.split() with no separator: the maximal runs of non-whitespace
RECURSIVE SplitAcc(_, _, _)
SplitAcc(s, cur, acc) ==
    IF s = <<>>
    THEN IF cur = <<>> THEN acc ELSE Append(acc, cur)
    ELSE IF IsSpace(Head(s))
         THEN SplitAcc(Tail(s), <<>>, IF cur = <<>> THEN acc ELSE Append(acc, cur))
         ELSE SplitAcc(Tail(s), Append(cur, Head(s)), acc)

Split(s) == SplitAcc(s, <<>>, <<>>)

\* word in text (substring test); the empty word is in every text
Contains(text, word) ==
    \E i \in 0..(Len(text) - Len(word)) : SubSeq(text, i + 1, i + Len(word)) = word

\* text.split('.')[-1]: what follows the last dot, the whole text when it has none
RECURSIVE LastDotSegment(_)
LastDotSegment(s) ==
    IF \E i \in 1..Len(s) : s[i] = "."
    THEN LastDotSegment(Tail(s))
    ELSE s

\* the elements of a sequence that satisfy a test, in order
RECURSIVE SelectWords(_)
SelectWords(ws) ==
    IF ws = <<>> THEN <<>>
    ELSE IF Len(Head(ws)) >= 2
         THEN <<Head(ws)>> \o SelectWords(Tail(ws))
         ELSE SelectWords(Tail(ws))

DigitChars == <<"0", "1", "2", "3", "4", "5", "6", "7", "8", "9">>

\* str() of a non-negative int
RECURSIVE StrInt(_)
StrInt(n) ==
    IF n < 10 THEN <<DigitChars[n + 1]>>
    ELSE StrInt(n \div 10) \o <<DigitChars[(n % 10) + 1]>>

\* str() of a non-negative float held in hundredths: 100 is "1.0", 101 is "1.01"
StrFloat(h) ==
    StrInt(h \div 100) \o <<".">> \o
    (IF h % 10 = 0 THEN <<DigitChars[((h % 100) \div 10) + 1]>>
     ELSE <<DigitChars[((h % 100) \div 10) + 1], DigitChars[(h % 10) + 1]>>)

(***************************************************************************)
(* Python values.                                                          *)
(***************************************************************************)
PyNone == [t |-> "none", v |-> 0]
PyStr(s) == [t |-> "str", v |-> s]
PyInt(n) == [t |-> "int", v |-> n]
PyFloat(h) == [t |-> "float", v |-> h]
PyList(items) == [t |-> "list", v |-> items]
\* a dict is its items in insertion order, each <<key, value>>, keys being text
PyDict(items) == [t |-> "dict", v |-> items]

HasKey(d, k) == \E i \in DOMAIN d.v : d.v[i][1] = k

\* dict[key], for a key the dict has
Item(d, k) == d.v[CHOOSE i \in DOMAIN d.v : d.v[i][1] = k][2]

\* dict.get(key, default)
Get(d, k, default) == IF HasKey(d, k) THEN Item(d, k) ELSE default

(***************************************************************************)
(* Module-level constants and the extension allow-list.                    *)
(***************************************************************************)
\* '1.0'
CACHE_VERSION == <<"1", ".", "0">>
\* 40.0, in hundredths
DEFAULT_FUZZY_THRESHOLD == 4000
DEFAULT_MAX_RESULTS == 50
DIRECTORY_SAMPLE_SIZE == 100

ROM_EXTENSIONS ==
    {
      <<"z","i","p">>, <<"7","z">>, <<"r","a","r">>, <<"s","f","c">>,
      <<"s","m","d">>, <<"g","e","n">>, <<"n","e","s">>, <<"g","b">>,
      <<"g","b","c">>, <<"g","b","a">>, <<"n","6","4">>, <<"z","6","4">>,
      <<"v","6","4">>, <<"i","s","o">>, <<"c","u","e">>, <<"b","i","n">>,
      <<"i","m","g">>, <<"r","o","m">>, <<"s","m","s">>, <<"g","g">>,
      <<"p","c","e">>, <<"w","s">>, <<"w","s","c">>, <<"n","g","p">>,
      <<"n","g","c">>, <<"l","y","n","x">>, <<"j","a","g">>, <<"3","2","x">>,
      <<"s","a","t">>, <<"c","d","i">>, <<"c","h","d">>, <<"n","d","s">>,
      <<"g","b","a">>, <<"f","d","s">>, <<"n","s","f">>, <<"s","p","c">>,
      <<"p","s","f">>, <<"m","i","n","i","p","s","f">>, <<"p","s","f","2">>, <<"s","s","f">>,
      <<"d","s","f">>, <<"g","s","f">>, <<"u","s","f">>, <<"r","s","n">>,
      <<"s","a","p">>, <<"s","i","d">>, <<"g","y","m">>, <<"v","g","m">>,
      <<"v","g","z">>
    }

(***************************************************************************)
(* Normalizer, extension filter, lexical pre-filter.                       *)
(***************************************************************************)
\* NFD decomposition followed by dropping the combining marks
StripDiacritic(c) ==
    IF c = "E_acute" THEN "E" ELSE IF c = "e_acute" THEN "e" ELSE c

_normalize_text(text) ==
    IF text = <<>> THEN <<>>
    ELSE Lower([i \in 1..Len(text) |-> StripDiacritic(text[i])])

_is_rom_file(filename) == LastDotSegment(Lower(filename)) \in ROM_EXTENSIONS

Max(a, b) == IF a >= b THEN a ELSE b
Min(a, b) == IF a <= b THEN a ELSE b

\* sum(1 for word in words if word in text)
CountWordsIn(words, text) ==
    Cardinality({i \in DOMAIN words : Contains(text, words[i])})

\* max(1, int(len(words) * 0.6))
RequiredWords(n) == Max(1, (n * 6) \div 10)

_contains_all_words(query, filename) ==
    IF Len(Strip(query)) < 3 THEN TRUE
    ELSE LET query_words == SelectWords(Split(Lower(query)))
             filename_lower == Lower(filename)
             matches == CountWordsIn(query_words, filename_lower)
             required == RequiredWords(Len(query_words))
             norm_words == SelectWords(Split(_normalize_text(query)))
             norm_matches == CountWordsIn(norm_words, _normalize_text(filename))
         IN  \/ matches >= required
             \/ norm_matches >= RequiredWords(Len(norm_words))

(***************************************************************************)
(* The collection directories.  A directory is                            *)
(*   [exists, mtime, size, entries]                                        *)
(* with entries in the order rglob("*") yields them, each                  *)
(*   [kind ("file" | "dir"), name, ok, size, mtime];                        *)
(* ok = FALSE is an entry whose stat() raises OSError.                     *)
(***************************************************************************)
NoDir == [exists |-> FALSE, mtime |-> 0, size |-> 0, entries |-> <<>>]

\* hashlib.md5(...).hexdigest() of the text fed to the hasher; never the empty text
Digest(fed) == <<"md5:">> \o fed

\* file_path.is_file() (lines 144 and 263)
IsFileEntry(e) == e.kind = "file"

RECURSIVE HashEntries(_, _)
\* the loop of lines 143-147; an OSError ends it with what was fed so far
HashEntries(entries, fed) ==
    IF entries = <<>> THEN fed
    ELSE LET e == Head(entries) IN
         IF e.kind # "file" THEN HashEntries(Tail(entries), fed)
         ELSE IF ~e.ok THEN fed
         ELSE HashEntries(Tail(entries), fed \o StrFloat(e.mtime) \o StrInt(e.size))

_calculate_dir_hash(directory) ==
    IF ~directory.exists THEN PyStr(<<>>)
    ELSE PyStr(Digest(HashEntries(
             SelectSeq(SubSeq(directory.entries, 1,
                              Min(DIRECTORY_SAMPLE_SIZE, Len(directory.entries))),
                       IsFileEntry),
             StrFloat(directory.mtime) \o StrInt(directory.size))))

\* str(file_path)
PathText(root, system, name) == <<root, "/", system, "/">> \o name

RomMatch(filename, full_path, source_type, score, size, modified_time) ==
    [filename |-> filename, full_path |-> full_path, source_type |-> source_type,
     score |-> score, size |-> size, modified_time |-> modified_time]

RECURSIVE ScanEntries(_, _, _, _)
ScanEntries(entries, root, system, source_type) ==
    IF entries = <<>> THEN <<>>
    ELSE LET e == Head(entries)
             rest == ScanEntries(Tail(entries), root, system, source_type)
         IN  IF e.kind # "file" \/ ~_is_rom_file(e.name) \/ ~e.ok THEN rest
             ELSE <<RomMatch(PyStr(e.name), PyStr(PathText(root, system, e.name)),
                             PyStr(<<source_type>>), PyFloat(10000),
                             PyInt(e.size), PyFloat(e.mtime))>> \o rest

_scan_directory(directory, root, system, source_type) ==
    IF ~directory.exists THEN <<>>
    ELSE ScanEntries(SelectSeq(directory.entries, IsFileEntry),
                     root, system, source_type)

\* the index of one collection: a dict source type -> list of RomMatch
_build_index(official_dir, trans_dir, system) ==
    PyDict(
      (IF official_dir.exists
       THEN << <<"official",
                 PyList(_scan_directory(official_dir, "Official", system, "official"))>> >>
       ELSE <<>>)
      \o
      (IF trans_dir.exists
       THEN << <<"translations",
                 PyList(_scan_directory(trans_dir, "Translations", system, "translations"))>> >>
       ELSE <<>>))

(***************************************************************************)
(* The cache file.  A file is [exists, parts]: parts are the chunks the    *)
(* write() calls put there, each [w, doc, part] (writer, document, index   *)
(* of the chunk within the document); a hole left by a write past the end  *)
(* is NoChunk.  A document is a Python value that json can hold, or        *)
(* NotText (bytes that are not UTF-8) or NotJson (text that is not JSON).  *)
(***************************************************************************)
\* write() calls one json.dump takes
WriteChunks == 2

NoFile == [exists |-> FALSE, parts |-> <<>>]
NoChunk == [w |-> "none", doc |-> PyNone, part |-> 0]
NotText == [t |-> "bytes", v |-> 0]
NotJson == [t |-> "text", v |-> 0]

\* the whole of a document, as one writer leaves it
WholeFile(w, doc) ==
    [exists |-> TRUE, parts |-> [i \in 1..WriteChunks |-> [w |-> w, doc |-> doc, part |-> i]]]

\* the file holds every chunk of one document, in place
IsWhole(file) ==
    /\ Len(file.parts) = WriteChunks
    /\ \A i \in 1..WriteChunks :
          file.parts[i].part = i /\ file.parts[i].doc = file.parts[1].doc

\* open(..., encoding='utf-8') and json.load: the document, or the error raised
ReadJson(file) ==
    IF ~file.exists THEN [st |-> "raise", exc |-> "FileNotFoundError", doc |-> PyNone]
    ELSE IF \E i \in DOMAIN file.parts : file.parts[i].doc = NotText
    THEN [st |-> "raise", exc |-> "UnicodeDecodeError", doc |-> PyNone]
    ELSE IF ~IsWhole(file) \/ file.parts[1].doc = NotJson
    THEN [st |-> "miss", exc |-> "JSONDecodeError", doc |-> PyNone]
    ELSE [st |-> "ok", exc |-> "", doc |-> file.parts[1].doc]

\* lines 171-172: cache_data.get('version') != CACHE_VERSION
CheckVersion(cache_data) ==
    IF cache_data.t # "dict" THEN [st |-> "raise", exc |-> "AttributeError"]
    ELSE IF Get(cache_data, "version", PyNone) # PyStr(CACHE_VERSION)
    THEN [st |-> "miss", exc |-> ""]
    ELSE [st |-> "ok", exc |-> ""]

RomMatchKeys ==
    <<"filename", "full_path", "source_type", "score", "size", "modified_time">>

\* lines 186-193 for one element of a files list
MatchLoads(match) ==
    /\ match.t = "dict"
    /\ \A i \in DOMAIN RomMatchKeys : HasKey(match, RomMatchKeys[i])

LoadMatch(match) ==
    RomMatch(Item(match, "filename"), Item(match, "full_path"),
             Item(match, "source_type"), Item(match, "score"),
             Item(match, "size"), Item(match, "modified_time"))

\* the comprehension of lines 185-194 completes without KeyError or TypeError
FilesLoad(files) ==
    \/ files.t = "list" /\ \A i \in DOMAIN files.v : MatchLoads(files.v[i])
    \/ files.t \in {"dict", "str"} /\ files.v = <<>>

LoadFiles(files) ==
    IF files.t = "list"
    THEN PyList([i \in DOMAIN files.v |-> LoadMatch(files.v[i])])
    ELSE PyList(<<>>)

\* a load that compares the official fingerprint alone: one the claims must reject
LoadMatchesOneHash(cache_data, official_hash, trans_hash) ==
    IF Get(cache_data, "official_hash", PyNone) # official_hash
    THEN [st |-> "miss", exc |-> "", matches |-> PyNone]
    ELSE LET m == Get(cache_data, "matches", PyDict(<<>>)) IN
         IF m.t # "dict"
         THEN [st |-> "raise", exc |-> "AttributeError", matches |-> PyNone]
         ELSE IF \E i \in DOMAIN m.v : ~FilesLoad(m.v[i][2])
         THEN [st |-> "miss", exc |-> "KeyError or TypeError", matches |-> PyNone]
         ELSE [st |-> "ok", exc |-> "",
               matches |-> PyDict([i \in DOMAIN m.v |->
                                      <<m.v[i][1], LoadFiles(m.v[i][2])>>])]

\* lines 174-194, given the fingerprints recomputed at lines 175-176
LoadMatches(cache_data, official_hash, trans_hash) ==
    IF \/ Get(cache_data, "official_hash", PyNone) # official_hash
       \/ Get(cache_data, "translations_hash", PyNone) # trans_hash
    THEN [st |-> "miss", exc |-> "", matches |-> PyNone]
    ELSE LET m == Get(cache_data, "matches", PyDict(<<>>)) IN
         IF m.t # "dict"
         THEN [st |-> "raise", exc |-> "AttributeError", matches |-> PyNone]
         ELSE IF \E i \in DOMAIN m.v : ~FilesLoad(m.v[i][2])
         THEN [st |-> "miss", exc |-> "KeyError or TypeError", matches |-> PyNone]
         ELSE [st |-> "ok", exc |-> "",
               matches |-> PyDict([i \in DOMAIN m.v |->
                                      <<m.v[i][1], LoadFiles(m.v[i][2])>>])]

\* lines 221-227: what save writes for one record
DumpMatch(m) ==
    PyDict(<< <<"filename", m.filename>>, <<"full_path", m.full_path>>,
              <<"source_type", m.source_type>>, <<"size", m.size>>,
              <<"modified_time", m.modified_time>> >>)

\* lines 214-232; the timestamp is never read back and is held at 0
CacheData(matches, official_hash, trans_hash) ==
    PyDict(<< <<"version", PyStr(CACHE_VERSION)>>,
              <<"timestamp", PyFloat(0)>>,
              <<"official_hash", official_hash>>,
              <<"translations_hash", trans_hash>>,
              <<"matches",
                PyDict([i \in DOMAIN matches.v |->
                   <<matches.v[i][1],
                     PyList([j \in DOMAIN matches.v[i][2].v |->
                                DumpMatch(matches.v[i][2].v[j])])>>])>> >>)

(***************************************************************************)
(* The query pipeline of search (lines 411-448).                           *)
(***************************************************************************)
\* 10.0: the flat bonus of a translation in the sort key (line 438)
TRANSLATION_BONUS == 1000

IsTranslation(x) == x.source_type = PyStr(<<"translations">>)

\* every record of an index, in the order matches.items() and the lists give
RECURSIVE AllRecords(_)
AllRecords(items) ==
    IF items = <<>> THEN <<>> ELSE Head(items)[2].v \o AllRecords(Tail(items))

\* the key without the bonus of a translation: a ranking the claims must reject
SortKeyNoBonus(x) ==
    <<x.score.v, IF IsTranslation(x) THEN 1 ELSE 0, 0 - x.size.v>>

\* the key of line 437-441, as a triple of numbers
SortKey(x) ==
    <<x.score.v + (IF IsTranslation(x) THEN TRANSLATION_BONUS ELSE 0),
      IF IsTranslation(x) THEN 1 ELSE 0,
      0 - x.size.v>>

\* tuple comparison a < b
KeyLess(a, b) ==
    \/ a[1] < b[1]
    \/ a[1] = b[1] /\ a[2] < b[2]
    \/ a[1] = b[1] /\ a[2] = b[2] /\ a[3] < b[3]

RECURSIVE InsertDescending(_, _)
\* r goes behind every record whose key is not less than its own (a stable sort)
InsertDescending(sorted, r) ==
    IF sorted = <<>> THEN <<r>>
    ELSE IF KeyLess(SortKey(Head(sorted)), SortKey(r)) THEN <<r>> \o sorted
    ELSE <<Head(sorted)>> \o InsertDescending(Tail(sorted), r)

RECURSIVE SortResults(_, _)
\* results.sort(key=..., reverse=True)
SortResults(results, sorted) ==
    IF results = <<>> THEN sorted
    ELSE SortResults(Tail(results), InsertDescending(sorted, Head(results)))

\* results[:max_results]
Slice(results, max_results) ==
    IF max_results >= 0
    THEN SubSeq(results, 1, Min(max_results, Len(results)))
    ELSE SubSeq(results, 1, Max(0, Len(results) + max_results))

VARIABLES
    dirs,        \* dirs[system][source]: the directory Official/system, Translations/system
    files,       \* files[system]: the cache file (json) and its temp file (tmp)
    file_index,  \* self._file_index: a function from the collections in memory
    lock,        \* self._index_lock: the thread that holds it, or "free"
    fuzz,        \* the fuzzy scorer: <<query.lower(), filename.lower()>> -> score
    th,          \* th[t]: the call thread t is in, its locals and its position
    changed,     \* changed[system]: its directories changed since the save that
                 \* wrote its cache file fingerprinted them
    calls,       \* calls started so far
    budget       \* steps other processes and faults may still take

vars == <<dirs, files, file_index, lock, fuzz, th, changed, calls, budget>>

\* _fuzzy_match_score
_fuzzy_match_score(query, filename) == fuzz[<<Lower(query), Lower(filename)>>]

\* a threshold test that drops the boundary: one the claims must reject
MeetsThresholdStrictly(score) == score > DEFAULT_FUZZY_THRESHOLD

\* score >= self.fuzzy_threshold (line 424)
MeetsThreshold(score) == score >= DEFAULT_FUZZY_THRESHOLD

RECURSIVE FilterRecords(_, _)
\* lines 411-433: the records kept, each with the measured score
FilterRecords(query, records) ==
    IF records = <<>> THEN <<>>
    ELSE LET r == Head(records)
             rest == FilterRecords(query, Tail(records))
         IN  IF ~_contains_all_words(query, r.filename.v) THEN rest
             ELSE LET score == _fuzzy_match_score(query, r.filename.v) IN
                  IF MeetsThreshold(score)
                  THEN <<RomMatch(r.filename, r.full_path, r.source_type,
                                  PyFloat(score), r.size, r.modified_time)>> \o rest
                  ELSE rest

\* lines 411-448 over the snapshot taken at line 404: what the call returns or raises.
\* filename.lower() raises AttributeError on a filename that is no str; the sort
\* key raises TypeError on a size that cannot be negated.
RunQuery(query, matches, max_results) ==
    LET records == AllRecords(matches.v) IN
    IF \E i \in DOMAIN records : records[i].filename.t # "str"
    THEN [st |-> "raise", exc |-> "AttributeError", ranked |-> <<>>, val |-> <<>>]
    ELSE LET results == FilterRecords(query, records) IN
         IF \E i \in DOMAIN results : results[i].size.t \notin {"int", "float"}
         THEN [st |-> "raise", exc |-> "TypeError", ranked |-> <<>>, val |-> <<>>]
         ELSE LET ranked == SortResults(results, <<>>) IN
              [st |-> "ok", exc |-> "", ranked |-> ranked,
               val |-> Slice(ranked, max_results)]

(***************************************************************************)
(* Threads.  th[t] holds the call's arguments, its local variables and pc, *)
(* the place in the source thread t has reached.                           *)
(***************************************************************************)
Threads == {"t1", "t2"}
Systems == {"snes", "nes"}
Sources == {"official", "translations"}
\* clear_cache(None)
None == "None"

NoReturn == [st |-> "none", exc |-> "", ranked |-> <<>>, val |-> <<>>]
Returned(val) == [st |-> "ok", exc |-> "", ranked |-> <<>>, val |-> val]
Raised(exc) == [st |-> "raise", exc |-> exc, ranked |-> <<>>, val |-> <<>>]

\* no call: what prev holds when the last call is not known to have run alone
NoCall ==
    [op |-> "", query |-> <<>>, system |-> None, max_results |-> 0,
     loaded |-> "none", saved |-> "none", ret |-> NoReturn]

\* alone: nothing else has acted on the engine, its cache files or its
\* directories since the call began; prev: the call this thread made before,
\* when it ran alone and nothing has acted since
IdleThread ==
    [pc |-> "idle", op |-> "", query |-> <<>>, system |-> None, max_results |-> 0,
     cache_data |-> PyNone, official_hash |-> PyNone, trans_hash |-> PyNone,
     matches |-> PyNone, todo |-> <<>>, fd |-> "closed", written |-> 0,
     readw |-> "none", loaded |-> "none", saved |-> "none", dirty |-> FALSE,
     ret |-> NoReturn, alone |-> FALSE, prev |-> NoCall]

\* thread t begins the call c: the other threads no longer run alone
Begin(t, c) ==
    [u \in Threads |->
        IF u = t
        THEN [c EXCEPT !.prev = th[t].prev,
                       !.alone = \A v \in Threads \ {t} : th[v].pc = "idle"]
        ELSE [th[u] EXCEPT !.alone = FALSE, !.prev = NoCall]]

\* another process has acted: no call in progress runs alone, no earlier call
\* is the last thing that happened
Disturbed(u) == [th[u] EXCEPT !.alone = FALSE, !.prev = NoCall]

\* the call of thread t is over: it returned val, or raised exc
Finish(t, ret) == [th[t] EXCEPT !.pc = "done", !.ret = ret]

\* with self._index_lock: entering
Acquire(t, from, to) ==
    /\ th[t].pc = from
    /\ lock = "free"
    /\ lock' = t
    /\ th' = [th EXCEPT ![t].pc = to]

\* a block that leaves without releasing: one the claims must reject
LockKept(t) == t

\* with self._index_lock: leaving, by return or by exception; no block is
\* entered inside another, so leaving one frees the lock
Release(t) == "free"

\* self._file_index.get(system, {})
IndexGet(system) ==
    IF system \in DOMAIN file_index THEN file_index[system] ELSE PyDict(<<>>)

\* self._file_index[system] = matches
IndexPut(system, matches) ==
    [s \in DOMAIN file_index \cup {system} |->
        IF s = system THEN matches ELSE file_index[s]]

\* a pop that leaves the entry in the map: one the claims must reject
IndexKept(system) == file_index

\* self._file_index.pop(system, None)
IndexPop(system) == [s \in DOMAIN file_index \ {system} |-> file_index[s]]

\* a test of the query without strip(): one the claims must reject
IsBlankUnstripped(query) == query = <<>>

\* if not query.strip() (line 394)
IsBlank(query) == Strip(query) = <<>>

(***************************************************************************)
(* search, line 394, and _ensure_index, lines 326-328.                     *)
(***************************************************************************)
SearchCall(t, query, system, max_results) ==
    /\ th[t].pc = "idle"
    /\ calls' = calls + 1
    /\ LET c == [IdleThread EXCEPT !.op = "search", !.query = query,
                                   !.system = system, !.max_results = max_results]
       IN  th' = Begin(t, IF IsBlank(query)
                          THEN [c EXCEPT !.pc = "done", !.ret = Returned(<<>>)]
                          ELSE [c EXCEPT !.pc = "ei_lock"])
    /\ UNCHANGED <<dirs, files, file_index, lock, fuzz, changed, budget>>

EnsureLock(t) ==
    /\ Acquire(t, "ei_lock", "ei_check")
    /\ UNCHANGED <<dirs, files, file_index, fuzz, changed, calls, budget>>

EnsureCheck(t) ==
    /\ th[t].pc = "ei_check"
    /\ lock' = Release(t)
    /\ th' = [th EXCEPT ![t].pc =
                 IF th[t].system \in DOMAIN file_index THEN "s_lock" ELSE "lc_exists"]
    /\ UNCHANGED <<dirs, files, file_index, fuzz, changed, calls, budget>>

(***************************************************************************)
(* _load_cache, lines 162-204.                                             *)
(***************************************************************************)
\* line 163
LoadExists(t) ==
    /\ th[t].pc = "lc_exists"
    /\ th' = [th EXCEPT ![t].pc =
                 IF files[th[t].system].json.exists THEN "lc_read" ELSE "build"]
    /\ UNCHANGED <<dirs, files, file_index, lock, fuzz, changed, calls, budget>>

\* whose chunks a file holds: one writer's, or "mixed"
WriterOf(file) ==
    IF IsWhole(file) /\ \A i \in DOMAIN file.parts : file.parts[i].w = file.parts[1].w
    THEN file.parts[1].w
    ELSE "mixed"

\* lines 166-172: open, json.load, the version check
LoadRead(t) ==
    /\ th[t].pc = "lc_read"
    /\ LET file == files[th[t].system].json
           r == ReadJson(file)
           v == CheckVersion(r.doc)
           c == [th[t] EXCEPT !.readw = WriterOf(file)]
       IN  th' = [th EXCEPT ![t] =
                     IF r.st = "raise"
                     THEN [c EXCEPT !.pc = "done", !.ret = Raised(r.exc), !.loaded = "raise"]
                     ELSE IF r.st = "miss" THEN [c EXCEPT !.pc = "build", !.loaded = "miss"]
                     ELSE IF v.st = "raise"
                     THEN [c EXCEPT !.pc = "done", !.ret = Raised(v.exc), !.loaded = "raise"]
                     ELSE IF v.st = "miss" THEN [c EXCEPT !.pc = "build", !.loaded = "miss"]
                     ELSE [c EXCEPT !.pc = "lc_hash", !.cache_data = r.doc]]
    /\ UNCHANGED <<dirs, files, file_index, lock, fuzz, changed, calls, budget>>

\* lines 175-194: both fingerprints recomputed, compared, the records rebuilt
LoadHash(t) ==
    /\ th[t].pc = "lc_hash"
    /\ LET official_hash == _calculate_dir_hash(dirs[th[t].system].official)
           trans_hash == _calculate_dir_hash(dirs[th[t].system].translations)
           r == LoadMatches(th[t].cache_data, official_hash, trans_hash)
           c == [th[t] EXCEPT !.official_hash = official_hash,
                              !.trans_hash = trans_hash, !.loaded = r.st]
       IN  th' = [th EXCEPT ![t] =
                     IF r.st = "raise"
                     THEN [c EXCEPT !.pc = "done", !.ret = Raised(r.exc)]
                     ELSE IF r.st = "miss" THEN [c EXCEPT !.pc = "build"]
                     ELSE [c EXCEPT !.pc = "lc_lock", !.matches = r.matches]]
    /\ UNCHANGED <<dirs, files, file_index, lock, fuzz, changed, calls, budget>>

LoadLock(t) ==
    /\ Acquire(t, "lc_lock", "lc_store")
    /\ UNCHANGED <<dirs, files, file_index, fuzz, changed, calls, budget>>

\* lines 196-200
LoadStore(t) ==
    /\ th[t].pc = "lc_store"
    /\ file_index' = IndexPut(th[t].system, th[t].matches)
    /\ lock' = Release(t)
    /\ th' = [th EXCEPT ![t].pc = "s_lock"]
    /\ UNCHANGED <<dirs, files, fuzz, changed, calls, budget>>

(***************************************************************************)
(* _ensure_index, lines 333-336: build and insert.                         *)
(***************************************************************************)
Build(t) ==
    /\ th[t].pc = "build"
    /\ th' = [th EXCEPT ![t].pc = "bi_lock",
                        ![t].matches = _build_index(dirs[th[t].system].official,
                                                    dirs[th[t].system].translations,
                                                    th[t].system)]
    /\ UNCHANGED <<dirs, files, file_index, lock, fuzz, changed, calls, budget>>

BuildLock(t) ==
    /\ Acquire(t, "bi_lock", "bi_store")
    /\ UNCHANGED <<dirs, files, file_index, fuzz, changed, calls, budget>>

BuildStore(t) ==
    /\ th[t].pc = "bi_store"
    /\ file_index' = IndexPut(th[t].system, th[t].matches)
    /\ lock' = Release(t)
    /\ th' = [th EXCEPT ![t].pc = "sv_lock"]
    /\ UNCHANGED <<dirs, files, fuzz, changed, calls, budget>>

(***************************************************************************)
(* _save_cache, lines 208-242.                                             *)
(***************************************************************************)
\* An open file follows its inode: when a name is replaced or unlinked, the
\* descriptors open on it no longer write to any name; when tmp is renamed
\* to json, the descriptors open on tmp write to json.
FdAfterRename(u, system) ==
    IF th[u].system # system THEN th[u].fd
    ELSE IF th[u].fd = "tmp" THEN "json"
    ELSE IF th[u].fd = "json" THEN "unlinked"
    ELSE th[u].fd

FdAfterUnlink(u, system) ==
    IF th[u].system = system /\ th[u].fd = "json" THEN "unlinked" ELSE th[u].fd

\* a save whose failure is raised to the caller: one the claims must reject
OnSaveErrorRaises(c) ==
    [c EXCEPT !.pc = "done", !.fd = "closed", !.saved = "failed",
              !.ret = [st |-> "raise", exc |-> "OSError", ranked |-> <<>>, val |-> <<>>]]

\* except Exception (lines 241-242): logged, and _save_cache returns
OnSaveError(c) == [c EXCEPT !.pc = "s_lock", !.fd = "closed", !.saved = "failed"]

SaveLock(t) ==
    /\ Acquire(t, "sv_lock", "sv_get")
    /\ UNCHANGED <<dirs, files, file_index, fuzz, changed, calls, budget>>

\* lines 211-212
SaveGet(t) ==
    /\ th[t].pc = "sv_get"
    /\ lock' = Release(t)
    /\ th' = [th EXCEPT ![t].pc = "sv_hash", ![t].matches = IndexGet(th[t].system)]
    /\ UNCHANGED <<dirs, files, file_index, fuzz, changed, calls, budget>>

\* lines 214-232
SaveHash(t) ==
    /\ th[t].pc = "sv_hash"
    /\ th' = [th EXCEPT ![t].pc = "sv_open", ![t].dirty = FALSE,
                        ![t].cache_data =
                            CacheData(th[t].matches,
                                      _calculate_dir_hash(dirs[th[t].system].official),
                                      _calculate_dir_hash(dirs[th[t].system].translations))]
    /\ UNCHANGED <<dirs, files, file_index, lock, fuzz, changed, calls, budget>>

\* line 236: open(temp_path, 'w') creates the temp file or truncates it
SaveOpen(t) ==
    /\ th[t].pc = "sv_open"
    /\ \E fails \in {f \in BOOLEAN : f => budget > 0} :
          IF fails
          THEN /\ th' = [th EXCEPT ![t] = OnSaveError(th[t])]
               /\ budget' = budget - 1
               /\ UNCHANGED files
          ELSE /\ files' = [files EXCEPT ![th[t].system].tmp =
                                             [exists |-> TRUE, parts |-> <<>>]]
               /\ th' = [th EXCEPT ![t].pc = "sv_write", ![t].fd = "tmp",
                                   ![t].written = 0]
               /\ UNCHANGED budget
    /\ UNCHANGED <<dirs, file_index, lock, fuzz, changed, calls>>

\* a write() of one chunk at the descriptor's own offset
WriteAt(parts, k, chunk) ==
    [i \in 1..Max(Len(parts), k) |->
        IF i = k THEN chunk ELSE IF i <= Len(parts) THEN parts[i] ELSE NoChunk]

\* line 237: one write() of json.dump; the last one is followed by close()
SaveWrite(t) ==
    /\ th[t].pc = "sv_write"
    /\ \E fails \in {f \in BOOLEAN : f => budget > 0} :
          IF fails
          THEN /\ th' = [th EXCEPT ![t] = OnSaveError(th[t])]
               /\ budget' = budget - 1
               /\ UNCHANGED files
          ELSE LET k == th[t].written + 1
                   chunk == [w |-> t, doc |-> th[t].cache_data, part |-> k]
                   at == th[t].fd
                   system == th[t].system
               IN  /\ files' =
                        IF at = "tmp"
                        THEN [files EXCEPT ![system].tmp.parts =
                                  WriteAt(files[system].tmp.parts, k, chunk)]
                        ELSE IF at = "json"
                        THEN [files EXCEPT ![system].json.parts =
                                  WriteAt(files[system].json.parts, k, chunk)]
                        ELSE files
                   /\ th' = [th EXCEPT ![t].written = k,
                                       ![t].pc = IF k = WriteChunks THEN "sv_rename"
                                                 ELSE "sv_write",
                                       ![t].fd = IF k = WriteChunks THEN "closed"
                                                 ELSE at]
                   /\ UNCHANGED budget
    /\ UNCHANGED <<dirs, file_index, lock, fuzz, changed, calls>>

\* line 238: temp_path.replace(cache_path); FileNotFoundError when the temp file
\* is gone
SaveRename(t) ==
    /\ th[t].pc = "sv_rename"
    /\ LET system == th[t].system IN
       \E fails \in {f \in BOOLEAN : f => budget > 0} :
          IF fails \/ ~files[system].tmp.exists
          THEN /\ th' = [th EXCEPT ![t] = OnSaveError(th[t])]
               /\ budget' = IF fails THEN budget - 1 ELSE budget
               /\ UNCHANGED <<files, changed>>
          ELSE /\ files' = [files EXCEPT ![system] =
                                [json |-> files[system].tmp, tmp |-> NoFile]]
               /\ th' = [u \in Threads |->
                            IF u = t
                            THEN [th[t] EXCEPT !.pc = "s_lock", !.saved = "ok"]
                            ELSE [th[u] EXCEPT !.fd = FdAfterRename(u, system)]]
               /\ changed' = [changed EXCEPT ![system] = th[t].dirty]
               /\ UNCHANGED budget
    /\ UNCHANGED <<dirs, file_index, lock, fuzz, calls>>

(***************************************************************************)
(* search, lines 403-448.                                                  *)
(***************************************************************************)
SnapshotLock(t) ==
    /\ Acquire(t, "s_lock", "s_get")
    /\ UNCHANGED <<dirs, files, file_index, fuzz, changed, calls, budget>>

\* a search that uses up the index it scored: one the claims must reject
IndexAfterSearchEmptied(system) == IndexPut(system, PyDict(<<>>))

\* lines 403-448 assign nothing in self._file_index, and every result is a new
\* RomMatch (lines 426-433): the map after a search is the map before it
IndexAfterSearch(system) == file_index

\* line 404 under the lock, then the scoring, ranking and truncation of the
\* snapshot, which touch nothing shared
SnapshotScore(t) ==
    /\ th[t].pc = "s_get"
    /\ lock' = Release(t)
    /\ file_index' = IndexAfterSearch(th[t].system)
    /\ LET matches == IndexGet(th[t].system) IN
       th' = [th EXCEPT ![t] =
                 [th[t] EXCEPT !.pc = "done", !.matches = matches,
                               !.ret = RunQuery(th[t].query, matches,
                                                th[t].max_results)]]
    /\ UNCHANGED <<dirs, files, fuzz, changed, calls, budget>>

\* the caller takes the result (or the exception)
Return(t) ==
    /\ th[t].pc = "done"
    /\ th' = [th EXCEPT ![t] = IdleThread]
    /\ UNCHANGED <<dirs, files, file_index, lock, fuzz, changed, calls, budget>>

\* the same, the call being remembered as the thread's previous one
ReturnNoted(t) ==
    /\ th[t].pc = "done"
    /\ th' = [th EXCEPT ![t] =
                 [IdleThread EXCEPT !.prev =
                     IF th[t].alone
                     THEN [op |-> th[t].op, query |-> th[t].query,
                           system |-> th[t].system,
                           max_results |-> th[t].max_results,
                           loaded |-> th[t].loaded, saved |-> th[t].saved,
                           ret |-> th[t].ret]
                     ELSE NoCall]]
    /\ UNCHANGED <<dirs, files, file_index, lock, fuzz, changed, calls, budget>>

(***************************************************************************)
(* clear_cache, lines 480-495.                                             *)
(***************************************************************************)
\* the order in which cache_dir.glob("*.json") yields the cache files
SystemOrder == <<"nes", "snes">>

RECURSIVE ExistingCaches(_)
ExistingCaches(order) ==
    IF order = <<>> THEN <<>>
    ELSE (IF files[Head(order)].json.exists THEN <<Head(order)>> ELSE <<>>)
         \o ExistingCaches(Tail(order))

\* line 480: if system
ClearCall(t, system) ==
    /\ th[t].pc = "idle"
    /\ calls' = calls + 1
    /\ th' = Begin(t, [IdleThread EXCEPT !.op = "clear_cache", !.system = system,
                                          !.pc = IF system = None THEN "ca_glob"
                                                 ELSE "cc_exists"])
    /\ UNCHANGED <<dirs, files, file_index, lock, fuzz, changed, budget>>

\* line 482
ClearExists(t) ==
    /\ th[t].pc = "cc_exists"
    /\ th' = [th EXCEPT ![t].pc =
                 IF files[th[t].system].json.exists THEN "cc_unlink" ELSE "cc_lock"]
    /\ UNCHANGED <<dirs, files, file_index, lock, fuzz, changed, calls, budget>>

\* what unlink() of the cache file of system does to the files and descriptors
Unlinked(t, system, next) ==
    IF files[system].json.exists
    THEN /\ files' = [files EXCEPT ![system].json = NoFile]
         /\ th' = [u \in Threads |->
                      IF u = t THEN next
                      ELSE [th[u] EXCEPT !.fd = FdAfterUnlink(u, system)]]
    ELSE /\ th' = [th EXCEPT ![t] = Finish(t, Raised("FileNotFoundError"))]
         /\ UNCHANGED files

\* line 483
ClearUnlink(t) ==
    /\ th[t].pc = "cc_unlink"
    /\ Unlinked(t, th[t].system, [th[t] EXCEPT !.pc = "cc_lock"])
    /\ UNCHANGED <<dirs, file_index, lock, fuzz, changed, calls, budget>>

ClearLock(t) ==
    /\ Acquire(t, "cc_lock", "cc_pop")
    /\ UNCHANGED <<dirs, files, file_index, fuzz, changed, calls, budget>>

\* lines 486-487
ClearPop(t) ==
    /\ th[t].pc = "cc_pop"
    /\ file_index' = IndexPop(th[t].system)
    /\ lock' = Release(t)
    /\ th' = [th EXCEPT ![t] = Finish(t, Returned(<<>>))]
    /\ UNCHANGED <<dirs, files, fuzz, changed, calls, budget>>

\* line 490: the cache files found
ClearGlob(t) ==
    /\ th[t].pc = "ca_glob"
    /\ LET todo == ExistingCaches(SystemOrder) IN
       th' = [th EXCEPT ![t].todo = todo,
                        ![t].pc = IF todo = <<>> THEN "ca_lock" ELSE "ca_unlink"]
    /\ UNCHANGED <<dirs, files, file_index, lock, fuzz, changed, calls, budget>>

\* line 491, for the next file found
ClearAllUnlink(t) ==
    /\ th[t].pc = "ca_unlink"
    /\ Unlinked(t, Head(th[t].todo),
                [th[t] EXCEPT !.todo = Tail(th[t].todo),
                              !.pc = IF Tail(th[t].todo) = <<>> THEN "ca_lock"
                                     ELSE "ca_unlink"])
    /\ UNCHANGED <<dirs, file_index, lock, fuzz, changed, calls, budget>>

ClearAllLock(t) ==
    /\ Acquire(t, "ca_lock", "ca_clear")
    /\ UNCHANGED <<dirs, files, file_index, fuzz, changed, calls, budget>>

\* lines 494-495
ClearAllClear(t) ==
    /\ th[t].pc = "ca_clear"
    /\ file_index' = [s \in {} |-> PyNone]
    /\ lock' = Release(t)
    /\ th' = [th EXCEPT ![t] = Finish(t, Returned(<<>>))]
    /\ UNCHANGED <<dirs, files, fuzz, changed, calls, budget>>

(***************************************************************************)
(* get_stats, lines 509-522.                                               *)
(***************************************************************************)
RECURSIVE TotalFiles(_)
TotalFiles(systems) ==
    IF systems = {} THEN 0
    ELSE LET s == CHOOSE s \in systems : TRUE IN
         Len(AllRecords(file_index[s].v)) + TotalFiles(systems \ {s})

StatsCall(t) ==
    /\ th[t].pc = "idle"
    /\ calls' = calls + 1
    /\ th' = Begin(t, [IdleThread EXCEPT !.op = "get_stats", !.pc = "gs_lock"])
    /\ UNCHANGED <<dirs, files, file_index, lock, fuzz, changed, budget>>

StatsLock(t) ==
    /\ Acquire(t, "gs_lock", "gs_body")
    /\ UNCHANGED <<dirs, files, file_index, fuzz, changed, calls, budget>>

StatsBody(t) ==
    /\ th[t].pc = "gs_body"
    /\ lock' = Release(t)
    /\ th' = [th EXCEPT ![t] =
                 Finish(t, Returned(<<Cardinality(DOMAIN file_index),
                                      TotalFiles(DOMAIN file_index)>>))]
    /\ UNCHANGED <<dirs, files, file_index, fuzz, changed, calls, budget>>

(***************************************************************************)
(* Inputs: file names, queries, directories, scorers, foreign cache files. *)
(***************************************************************************)
Name_abc_sfc == <<"a", "b", "c", ".", "s", "f", "c">>
Name_ABC_SFC == <<"A", "B", "C", ".", "S", "F", "C">>
Name_abcd_sfc == <<"a", "b", "c", "d", ".", "s", "f", "c">>
Name_xyz_sfc == <<"x", "y", "z", ".", "s", "f", "c">>
Name_bad_sfc == <<"b", "a", "d", ".", "s", "f", "c">>
Name_readme_txt == <<"r", "e", "a", "d", "m", "e", ".", "t", "x", "t">>
Name_sub == <<"s", "u", "b">>
\* a file whose name has no dot
Name_ROM == <<"R", "O", "M">>

Query_empty == <<>>
Query_blank == <<" ", "\t">>
Query_abc == <<"a", "b", "c">>

Queries == {Query_empty, Query_blank, Query_abc}

\* "abc zz", "a b" and "ab": two words of which one is in some file names,
\* two one-letter words, one two-letter word
Query_abc_zz == <<"a", "b", "c", " ", "z", "z">>
Query_a_b == <<"a", " ", "b">>
Query_ab == <<"a", "b">>

FilterQueries == {Query_abc, Query_abc_zz, Query_a_b, Query_ab}

FileEntry(name, size, mtime) ==
    [kind |-> "file", name |-> name, ok |-> TRUE, size |-> size, mtime |-> mtime]
DirEntry(name) ==
    [kind |-> "dir", name |-> name, ok |-> TRUE, size |-> 40, mtime |-> 100]
\* a file whose stat() raises OSError
DeniedEntry(name) ==
    [kind |-> "file", name |-> name, ok |-> FALSE, size |-> 0, mtime |-> 0]
Directory(mtime, entries) ==
    [exists |-> TRUE, mtime |-> mtime, size |-> 40, entries |-> entries]

\* Official/snes, and the same after abcd.sfc is rewritten
OfficialSnes ==
    Directory(100, <<FileEntry(Name_abcd_sfc, 9, 200), FileEntry(Name_readme_txt, 1, 200),
                     DirEntry(Name_sub), FileEntry(Name_xyz_sfc, 8, 200),
                     DeniedEntry(Name_bad_sfc), FileEntry(Name_ROM, 3, 200)>>)
OfficialSnesTouched ==
    Directory(100, <<FileEntry(Name_abcd_sfc, 9, 250), FileEntry(Name_readme_txt, 1, 200),
                     DirEntry(Name_sub), FileEntry(Name_xyz_sfc, 8, 200),
                     DeniedEntry(Name_bad_sfc), FileEntry(Name_ROM, 3, 200)>>)
\* Translations/snes: two files whose names differ only in case
TranslationsSnes ==
    Directory(100, <<FileEntry(Name_abc_sfc, 5, 300), FileEntry(Name_ABC_SFC, 7, 300)>>)
\* Official/nes when it exists: nothing recognized in it
OfficialNes == Directory(100, <<FileEntry(Name_readme_txt, 1, 200)>>)

\* Official/nes with its one file rewritten
OfficialNesTouched == Directory(100, <<FileEntry(Name_readme_txt, 2, 250)>>)
\* Official/nes as a tree of as many subdirectories as the sample takes, which
\* the traversal yields before the one file below them; and the same with
\* that file rewritten
OfficialNesDeep ==
    Directory(100, [i \in 1..DIRECTORY_SAMPLE_SIZE |-> DirEntry(Name_sub)]
                       \o <<FileEntry(Name_abc_sfc, 5, 200)>>)
OfficialNesDeepTouched ==
    Directory(100, [i \in 1..DIRECTORY_SAMPLE_SIZE |-> DirEntry(Name_sub)]
                       \o <<FileEntry(Name_abc_sfc, 7, 250)>>)

HashDirStates ==
    {OfficialNes, OfficialNesTouched, OfficialNesDeep, OfficialNesDeepTouched}

\* the states a directory is seen in
DirStates(system, source) ==
    IF system = "snes"
    THEN IF source = "official" THEN {OfficialSnes, OfficialSnesTouched, NoDir}
         ELSE {TranslationsSnes, NoDir}
    ELSE IF source = "official" THEN {OfficialNes, NoDir}
         ELSE {NoDir}

\* what the scorer is asked about
ScoredPairs ==
    {<<Lower(Query_abc), Lower(n)>> : n \in {Name_abc_sfc, Name_abcd_sfc, Name_xyz_sfc}}

\* 39.0, 40.0, 50.0 and 61.0
ScoreValues == {3900, 4000, 5000, 6100}

Scorers == [ScoredPairs -> ScoreValues]

\* a cache file of another process or version: records that carry a score
ForeignMatch(m, filename) ==
    PyDict(<< <<"filename", filename>>, <<"full_path", m.full_path>>,
              <<"source_type", m.source_type>>, <<"score", m.score>>,
              <<"size", m.size>>, <<"modified_time", m.modified_time>> >>)

ForeignCache(version, official_hash, trans_hash, matches) ==
    PyDict(<< <<"version", PyStr(version)>>, <<"timestamp", PyFloat(0)>>,
              <<"official_hash", official_hash>>, <<"translations_hash", trans_hash>>,
              <<"matches", matches>> >>)

\* the matches of a foreign cache file; illTyped puts a number where the file
\* name belongs
ForeignMatches(index, illTyped) ==
    PyDict([i \in DOMAIN index.v |->
        <<index.v[i][1],
          PyList([j \in DOMAIN index.v[i][2].v |->
                     ForeignMatch(index.v[i][2].v[j],
                                  IF illTyped THEN PyInt(7)
                                  ELSE index.v[i][2].v[j].filename)])>>])

\* what another process may leave as the cache file of system
ForeignDocs(system) ==
    LET index == _build_index(dirs[system].official, dirs[system].translations, system)
        oh == _calculate_dir_hash(dirs[system].official)
        tr == _calculate_dir_hash(dirs[system].translations)
    IN  {NotText, NotJson, PyList(<<>>),
         ForeignCache(<<"0", ".", "9">>, oh, tr, ForeignMatches(index, FALSE)),
         ForeignCache(CACHE_VERSION, oh, tr, ForeignMatches(index, FALSE)),
         ForeignCache(CACHE_VERSION, oh, tr, ForeignMatches(index, TRUE)),
         ForeignCache(CACHE_VERSION, oh, tr, PyList(<<>>))}

(***************************************************************************)
(* Other processes: the directories change, a cache file is replaced, the  *)
(* engine is constructed anew (lines 111-114).                             *)
(***************************************************************************)
ChangeDir(system, source, d) ==
    /\ budget > 0
    /\ d # dirs[system][source]
    /\ dirs' = [dirs EXCEPT ![system][source] = d]
    /\ changed' = [changed EXCEPT ![system] = TRUE]
    /\ th' = [u \in Threads |->
                 IF th[u].system = system
                 THEN [Disturbed(u) EXCEPT !.dirty = TRUE]
                 ELSE Disturbed(u)]
    /\ budget' = budget - 1
    /\ UNCHANGED <<files, file_index, lock, fuzz, calls>>

WriteCacheFile(system, doc) ==
    /\ budget > 0
    /\ files' = [files EXCEPT ![system].json = WholeFile("foreign", doc)]
    /\ th' = [u \in Threads |-> [Disturbed(u) EXCEPT !.fd = FdAfterUnlink(u, system)]]
    /\ budget' = budget - 1
    /\ UNCHANGED <<dirs, file_index, lock, fuzz, changed, calls>>

NewEngine ==
    /\ budget > 0
    /\ \A t \in Threads : th[t].pc = "idle"
    /\ file_index # [s \in {} |-> PyNone]
    /\ file_index' = [s \in {} |-> PyNone]
    /\ lock' = "free"
    /\ th' = [u \in Threads |-> Disturbed(u)]
    /\ budget' = budget - 1
    /\ UNCHANGED <<dirs, files, fuzz, changed, calls>>

(***************************************************************************)
(* Specifications.                                                         *)
(***************************************************************************)
MaxCalls == 3
MaxEnvSteps == 2

InitEngine ==
    /\ dirs = [s \in Systems |->
                 IF s = "snes"
                 THEN [official |-> OfficialSnes, translations |-> TranslationsSnes]
                 ELSE [official |-> NoDir, translations |-> NoDir]]
    /\ files = [s \in Systems |-> [json |-> NoFile, tmp |-> NoFile]]
    /\ file_index = [s \in {} |-> PyNone]
    /\ lock = "free"
    /\ th = [t \in Threads |-> IdleThread]
    /\ changed = [s \in Systems |-> FALSE]
    /\ calls = 0

\* a scorer under which the translations score 40.0, abcd.sfc 50.0, xyz.sfc 61.0
FixedScorer ==
    [p \in ScoredPairs |->
        IF p[2] = Lower(Name_abc_sfc) THEN 4000
        ELSE IF p[2] = Lower(Name_abcd_sfc) THEN 5000 ELSE 6100]

Init ==
    /\ InitEngine
    /\ fuzz = FixedScorer
    /\ budget = MaxEnvSteps

\* the steps of a search up to its result
SearchWork(t) ==
    \/ EnsureLock(t) \/ EnsureCheck(t)
    \/ LoadExists(t) \/ LoadRead(t) \/ LoadHash(t) \/ LoadLock(t) \/ LoadStore(t)
    \/ Build(t) \/ BuildLock(t) \/ BuildStore(t)
    \/ SaveLock(t) \/ SaveGet(t) \/ SaveHash(t) \/ SaveOpen(t) \/ SaveWrite(t)
    \/ SaveRename(t)
    \/ SnapshotLock(t) \/ SnapshotScore(t)

SearchStep(t) == SearchWork(t) \/ Return(t)

ClearStep(t) ==
    \/ ClearExists(t) \/ ClearUnlink(t) \/ ClearLock(t) \/ ClearPop(t)
    \/ ClearGlob(t) \/ ClearAllUnlink(t) \/ ClearAllLock(t) \/ ClearAllClear(t)

StatsStep(t) == StatsLock(t) \/ StatsBody(t)

Step(t) == SearchStep(t) \/ ClearStep(t) \/ StatsStep(t)

Call(t) ==
    \/ \E query \in Queries, system \in Systems, max_results \in {1, DEFAULT_MAX_RESULTS} :
           SearchCall(t, query, system, max_results)
    \/ \E system \in Systems \cup {None} : ClearCall(t, system)
    \/ StatsCall(t)

Environment ==
    \/ \E system \in Systems, source \in Sources :
           \E d \in DirStates(system, source) : ChangeDir(system, source, d)
    \/ \E system \in Systems : \E doc \in ForeignDocs(system) : WriteCacheFile(system, doc)
    \/ NewEngine

\* one caller; other processes act between its calls
Next ==
    \/ calls < MaxCalls /\ Call("t1")
    \/ Step("t1")
    \/ th["t1"].pc = "idle" /\ Environment

Spec == Init /\ [][Next]_vars

\* the limits a caller passes: --max-results takes any int (lines 537-542)
Limits == {0 - 1, 1, DEFAULT_MAX_RESULTS}

\* searches under every scorer; the engine is constructed anew between them
InitRank ==
    /\ InitEngine
    /\ fuzz \in Scorers
    /\ budget = 1

NextRank ==
    \/ /\ calls < MaxCalls
       /\ \E system \in Systems, max_results \in Limits :
              SearchCall("t1", Query_abc, system, max_results)
    \/ SearchStep("t1")
    \/ NewEngine

SpecRank == InitRank /\ [][NextRank]_vars

\* two callers of one engine, with other processes acting at any moment
InitConc ==
    /\ InitEngine
    /\ fuzz = FixedScorer
    /\ budget = 1

CallConc(t) ==
    \/ SearchCall(t, Query_abc, "snes", DEFAULT_MAX_RESULTS)
    \/ \E system \in {"snes", None} : ClearCall(t, system)
    \/ StatsCall(t)

NextConc ==
    \/ calls < MaxCalls /\ \E t \in Threads : CallConc(t)
    \/ \E t \in Threads : Step(t)
    \/ \E source \in Sources :
           \E d \in DirStates("snes", source) : ChangeDir("snes", source, d)

SpecConc == InitConc /\ [][NextConc]_vars

\* one caller whose calls follow one another, each remembered for the next;
\* other processes act between the calls
CallSeq(t) ==
    \/ \E system \in Systems, max_results \in {1, DEFAULT_MAX_RESULTS} :
           SearchCall(t, Query_abc, system, max_results)
    \/ \E system \in Systems \cup {None} : ClearCall(t, system)

NextSeq ==
    \/ calls < MaxCalls /\ CallSeq("t1")
    \/ SearchWork("t1") \/ ClearStep("t1")
    \/ ReturnNoted("t1")
    \/ th["t1"].pc = "idle" /\ Environment

InitSeq ==
    /\ InitEngine
    /\ fuzz = FixedScorer
    /\ budget = 1

SpecSeq == InitSeq /\ [][NextSeq]_vars

\* searches of snes with queries of every shape the pre-filter tells apart,
\* under a scorer that gives every pair 50.0; the index is built, or loaded
\* from a cache file another process left
FilterPairs ==
    {<<Lower(q), Lower(n)>> :
        q \in FilterQueries,
        n \in {Name_abc_sfc, Name_abcd_sfc, Name_xyz_sfc, Name_ROM}}

InitFilter ==
    /\ InitEngine
    /\ fuzz = [p \in FilterPairs |-> 5000]
    /\ budget = 1

NextFilter ==
    \/ /\ calls < MaxCalls
       /\ \E query \in FilterQueries :
              SearchCall("t1", query, "snes", DEFAULT_MAX_RESULTS)
    \/ SearchStep("t1")
    \/ /\ th["t1"].pc = "idle"
       /\ \/ \E doc \in ForeignDocs("snes") : WriteCacheFile("snes", doc)
          \/ NewEngine

SpecFilter == InitFilter /\ [][NextFilter]_vars

\* searches of nes while Official/nes changes between small and deep trees
NextHash ==
    \/ calls < MaxCalls /\ SearchCall("t1", Query_abc, "nes", DEFAULT_MAX_RESULTS)
    \/ SearchStep("t1")
    \/ /\ th["t1"].pc = "idle"
       /\ \/ \E d \in HashDirStates : ChangeDir("nes", "official", d)
          \/ \E doc \in ForeignDocs("nes") : WriteCacheFile("nes", doc)
          \/ NewEngine

SpecHash == Init /\ [][NextHash]_vars

\* two callers of one engine, every call of which the scheduler keeps running:
\* a thread that can take a step is not left waiting for ever
InitLive ==
    /\ InitEngine
    /\ fuzz = FixedScorer
    /\ budget = 1

NextLive ==
    \/ calls < MaxCalls /\ \E t \in Threads : CallConc(t)
    \/ \E t \in Threads : Step(t)

\* Weak fairness of the steps of thread t.  The step at s_get (lines 403-448)
\* can be taken exactly while the thread is there and takes it to done, so its
\* weak fairness is that the thread is again and again elsewhere; stated so,
\* deciding whether the step can be taken does not rank the records.
Scheduled(t) ==
    /\ WF_vars(th[t].pc # "s_get" /\ Step(t))
    /\ []<>(th[t].pc # "s_get")

SpecLive ==
    InitLive /\ [][NextLive]_vars /\ \A t \in Threads : Scheduled(t)

(***************************************************************************)
(* Claims.                                                                 *)
(***************************************************************************)
\* thread t has just come out of the comparison of _load_cache
LoadDecided(t) ==
    /\ th[t].op = "search"
    /\ th[t].pc \in {"build", "lc_lock"}
    /\ th[t].loaded # "none"

\* every record of an index carries the score a scan gives it
FreshScores(matches) ==
    \A i \in DOMAIN AllRecords(matches.v) :
        AllRecords(matches.v)[i].score = PyFloat(10000)

\* C1: a load that reads the whole cache file a save of this engine wrote,
\* with the collection's directories unchanged since that save fingerprinted
\* them, reports a hit, and the index it loads is the saved one field by
\* field (dumping it again gives the document read, every score is 100.0).
C1_CacheRoundTrip ==
    \A t \in Threads :
        (LoadDecided(t) /\ th[t].readw \in Threads /\ ~changed[th[t].system])
            => /\ th[t].loaded = "ok"
               /\ CacheData(th[t].matches, th[t].official_hash, th[t].trans_hash)
                      = th[t].cache_data
               /\ FreshScores(th[t].matches)

\* the query is empty or all whitespace
OnlyWhitespace(query) == \A i \in DOMAIN query : query[i] \in {" ", "\t"}

\* a search of thread t is over
SearchDone(t) == th[t].op = "search" /\ th[t].pc = "done"

\* C2: whatever the cache file holds, a search returns normally: no error of
\* reading the cache reaches its caller.
C2_CacheErrorsRecovered ==
    \A t \in Threads :
        SearchDone(t) => (th[t].ret.st = "ok" /\ th[t].loaded # "raise")

IsOfficial(x) == x.source_type = PyStr(<<"official">>)

\* C3: in the returned sequence, of two records with the same provenance tag
\* and the same score, the one with the larger size comes first.
C3_LargerFileFirst ==
    \A t \in Threads :
        (SearchDone(t) /\ th[t].ret.st = "ok") =>
            LET val == th[t].ret.val IN
            \A i, j \in DOMAIN val :
                (i < j /\ val[i].source_type = val[j].source_type
                       /\ val[i].score = val[j].score)
                    => val[i].size.v >= val[j].size.v

\* C4: in the returned sequence an official record comes before a translation
\* only when its score is more than 10 higher; so a translation comes first
\* whenever the official score exceeds its own by at most 10.
C4_TranslationBonus ==
    \A t \in Threads :
        (SearchDone(t) /\ th[t].ret.st = "ok") =>
            LET val == th[t].ret.val IN
            \A i, j \in DOMAIN val :
                (i < j /\ IsOfficial(val[i]) /\ IsTranslation(val[j]))
                    => val[i].score.v > val[j].score.v + 1000

\* a translation returned before an official record that scores exactly 10 more
C4_Witness ==
    \E t \in Threads :
        /\ SearchDone(t) /\ th[t].ret.st = "ok"
        /\ \E i, j \in DOMAIN th[t].ret.val :
              /\ i < j
              /\ IsTranslation(th[t].ret.val[i]) /\ IsOfficial(th[t].ret.val[j])
              /\ th[t].ret.val[j].score.v = th[t].ret.val[i].score.v + 1000

\* C5: at every instant the cache file of a collection is absent or holds one
\* complete cache record written by a single save.
C5_CacheFileNeverTorn ==
    \A s \in Systems :
        files[s].json.exists => WriterOf(files[s].json) \in Threads

LoadPcs == {"lc_exists", "lc_read", "lc_hash", "lc_lock", "lc_store"}

\* C6: a step of _load_cache changes the in-memory map only by inserting the
\* loaded index of its collection, and only when the stored version is the
\* engine's and both stored fingerprints equal the recomputed ones; a load
\* that ends in a miss (or an error) leaves the map as it was.
C6_LoadAllOrNothing ==
    [][\A t \in Threads :
          (th[t].pc \in LoadPcs /\ th'[t] # th[t]) =>
              /\ file_index' # file_index =>
                    /\ Get(th[t].cache_data, "version", PyNone) = PyStr(CACHE_VERSION)
                    /\ Get(th[t].cache_data, "official_hash", PyNone) = th[t].official_hash
                    /\ Get(th[t].cache_data, "translations_hash", PyNone) = th[t].trans_hash
                    /\ file_index' = IndexPut(th[t].system, th[t].matches)
              /\ th'[t].pc \in {"build", "done"} => file_index' = file_index]_vars

\* a load has hit and put an index with records into the map
C6_Witness ==
    \E t \in Threads :
        /\ th[t].op = "search" /\ th[t].pc = "s_lock" /\ th[t].loaded = "ok"
        /\ th[t].system \in DOMAIN file_index
        /\ file_index[th[t].system] = th[t].matches
        /\ AllRecords(th[t].matches.v) # <<>>

\* what _build_index gives for the directories of system as they are
BuiltNow(system) ==
    _build_index(dirs[system].official, dirs[system].translations, system)

\* C7: a search whose save was attempted returns normally whether the save
\* failed or not, with the ranking of the index it built, and that index is
\* in the in-memory map.
C7_SaveFailureSwallowed ==
    \A t \in Threads :
        (SearchDone(t) /\ th[t].saved # "none") =>
            /\ th[t].ret.st = "ok"
            /\ th[t].ret.val =
                   RunQuery(th[t].query, BuiltNow(th[t].system), th[t].max_results).val
            /\ th[t].system \in DOMAIN file_index
            /\ file_index[th[t].system] = BuiltNow(th[t].system)

\* a search has returned records although its save failed
C7_Witness ==
    \E t \in Threads :
        /\ SearchDone(t) /\ th[t].saved = "failed"
        /\ th[t].ret.st = "ok" /\ th[t].ret.val # <<>>

\* the indexed record recs[k] passes the pre-filter and reaches the threshold
Qualifies(query, r) ==
    /\ _contains_all_words(query, r.filename.v)
    /\ fuzz[<<Lower(query), Lower(r.filename.v)>>] >= DEFAULT_FUZZY_THRESHOLD

\* C8: before truncation the result holds exactly one record for each indexed
\* record that passes the pre-filter and scores at least the threshold, with
\* the measured score and the other fields copied.
C8_FilterExact ==
    \A t \in Threads :
        (SearchDone(t) /\ th[t].ret.st = "ok" /\ ~OnlyWhitespace(th[t].query)) =>
            LET recs == AllRecords(th[t].matches.v)
                ranked == th[t].ret.ranked
                keep == {k \in DOMAIN recs : Qualifies(th[t].query, recs[k])}
            IN  /\ Len(ranked) = Cardinality(keep)
                /\ {ranked[i] : i \in DOMAIN ranked} =
                       {[recs[k] EXCEPT !.score =
                            PyFloat(fuzz[<<Lower(th[t].query), Lower(recs[k].filename.v)>>])]
                          : k \in keep}

\* a record scoring exactly the threshold is in the result, and a record of the
\* index is not
C8_Witness ==
    \E t \in Threads :
        /\ SearchDone(t) /\ th[t].ret.st = "ok"
        /\ \E i \in DOMAIN th[t].ret.ranked :
              th[t].ret.ranked[i].score.v = DEFAULT_FUZZY_THRESHOLD
        /\ Len(th[t].ret.ranked) < Len(AllRecords(th[t].matches.v))

\* C9: a search with an empty or whitespace-only query is over in its first
\* step, returns the empty sequence, and leaves the in-memory map and every
\* cache file as they were.
C9_BlankQueryNoEffect ==
    [][\A t \in Threads :
          (th[t].pc = "idle" /\ th'[t].op = "search" /\ OnlyWhitespace(th'[t].query))
              => /\ th'[t].pc = "done"
                 /\ th'[t].ret = Returned(<<>>)
                 /\ file_index' = file_index
                 /\ files' = files
                 /\ lock' = lock]_vars

\* a whitespace-only search has returned the empty sequence while a cache file
\* and an in-memory index exist
C9_Witness ==
    \E t \in Threads :
        /\ SearchDone(t) /\ th[t].query = Query_blank
        /\ th[t].ret = Returned(<<>>)
        /\ \E s \in Systems : files[s].json.exists /\ s \in DOMAIN file_index

\* neither directory of system exists or holds a recognized file
NothingRecognized(system) == AllRecords(BuiltNow(system).v) = <<>>

\* C10: for a collection whose directories are missing or hold no recognized
\* file, a search with a non-empty query returns the empty sequence and raises
\* no error.
C10_EmptyCollection ==
    \A t \in Threads :
        (SearchDone(t) /\ ~OnlyWhitespace(th[t].query) /\ NothingRecognized(th[t].system))
            => (th[t].ret.st = "ok" /\ th[t].ret.val = <<>>)

\* thread t has finished a search that repeats the call it made just before,
\* with nothing else having acted since that call began
RepeatedSearch(t) ==
    /\ SearchDone(t) /\ th[t].alone
    /\ th[t].prev.op = "search"
    /\ th[t].prev.query = th[t].query
    /\ th[t].prev.system = th[t].system
    /\ th[t].prev.max_results = th[t].max_results

\* C11: a search that repeats the previous call (same query, collection and
\* limit), with the filesystem and the cache touched by nothing else in
\* between, ends as that call did: it returns the same records with the same
\* scores in the same order, whether the first call found the collection in
\* memory, loaded it or built it.
C11_Idempotent ==
    \A t \in Threads : RepeatedSearch(t) => th[t].ret = th[t].prev.ret

\* a search has returned records again after the call before it built the index
C11_Witness ==
    \E t \in Threads :
        /\ RepeatedSearch(t)
        /\ th[t].prev.saved = "ok"
        /\ th[t].saved = "none" /\ th[t].loaded = "none"
        /\ th[t].ret.st = "ok" /\ Len(th[t].ret.val) > 1

\* C12: the returned sequence is a prefix of the fully ranked sequence and has
\* at most limit records (none when the limit is negative), for every integer
\* limit.
C12_TruncatedToLimit ==
    \A t \in Threads :
        (SearchDone(t) /\ th[t].ret.st = "ok") =>
            /\ Len(th[t].ret.val) <= Len(th[t].ret.ranked)
            /\ th[t].ret.val = SubSeq(th[t].ret.ranked, 1, Len(th[t].ret.val))
            /\ Len(th[t].ret.val) <= Max(0, th[t].max_results)

\* the entry and the cache file of collection s are the same after the step
SameCollection(s) ==
    /\ files'[s] = files[s]
    /\ (s \in DOMAIN file_index') = (s \in DOMAIN file_index)
    /\ s \in DOMAIN file_index => file_index'[s] = file_index[s]

\* thread t is in a search of a collection that the call just before, a
\* clear_cache running alone, cleared, and its index is now ensured
SearchAfterClear(t) ==
    /\ th[t].op = "search" /\ th[t].alone
    /\ th[t].pc \in {"s_lock", "s_get", "done"} /\ ~OnlyWhitespace(th[t].query)
    /\ th[t].prev.op = "clear_cache"
    /\ th[t].prev.system \in {th[t].system, None}

\* C13: with nothing else running, every step of clear_cache(c) leaves the
\* entry and the cache file of every other collection as they were, and when
\* it returns c has no entry and no cache file; when clear_cache(None) returns
\* the map is empty and no collection has a cache file.  The next search of a
\* cleared collection builds its index from the directories.
C13_ClearCache ==
    [][\A t \in Threads :
          /\ (th[t].op = "clear_cache" /\ th[t].alone /\ th'[t] # th[t]) =>
                /\ th[t].system # None =>
                      \A s \in Systems \ {th[t].system} : SameCollection(s)
                /\ th'[t].pc = "done" =>
                      /\ th'[t].ret.st = "ok"
                      /\ \A s \in Systems :
                            (th[t].system \in {s, None}) =>
                                /\ s \notin DOMAIN file_index'
                                /\ ~files'[s].json.exists
          /\ (th[t].pc # "s_lock" /\ th'[t].pc = "s_lock" /\ SearchAfterClear(t)') =>
                /\ th[t].pc \in {"sv_open", "sv_write", "sv_rename"}
                /\ th[t].system \in DOMAIN file_index'
                /\ file_index'[th[t].system] = BuiltNow(th[t].system)]_vars

\* clear_cache("snes") has returned after a search that built and saved snes,
\* while nes has an entry and a cache file
C13_Witness ==
    \E t \in Threads :
        /\ th[t].op = "clear_cache" /\ th[t].pc = "done" /\ th[t].alone
        /\ th[t].system = "snes"
        /\ th[t].prev.op = "search" /\ th[t].prev.system = "snes"
        /\ th[t].prev.saved = "ok"
        /\ "nes" \in DOMAIN file_index /\ files["nes"].json.exists

HasDot(name) == \E i \in DOMAIN name : name[i] = "."

\* the rule of the extension filter: a dot, and after the last dot an
\* extension of the allow-list in any case
HasRomExtension(name) ==
    HasDot(name) /\ LastDotSegment(Lower(name)) \in ROM_EXTENSIONS

\* the index holds a record of the file called name under source
Indexed(matches, source, name) ==
    /\ HasKey(matches, source)
    /\ \E i \in DOMAIN Item(matches, source).v :
           Item(matches, source).v[i].filename = PyStr(name)

\* C14: the index a scan has just built holds a file that can be read if and
\* only if its name has a dot and what follows the last dot is, in any case,
\* in the allow-list; a file whose name has no dot is never in it.
C14_ExtensionFilter ==
    \A t \in Threads :
        (th[t].op = "search" /\ th[t].pc = "bi_lock" /\ th[t].alone) =>
            \A source \in Sources :
                LET entries == dirs[th[t].system][source].entries IN
                \A i \in DOMAIN entries :
                    (entries[i].kind = "file" /\ entries[i].ok) =>
                        (Indexed(th[t].matches, source, entries[i].name)
                            <=> HasRomExtension(entries[i].name))

\* thread t has scanned the directories of its collection and has not yet
\* put the index into the map
HoldsScan(t) == th[t].op = "search" /\ th[t].pc \in {"bi_lock", "bi_store"}

\* C15: of the callers searching one collection at the same time, at most one
\* scans its directories: no two of them hold, each its own, a scan of that
\* collection that is not yet in the map.
C15_BuildAtMostOnce ==
    \A t, u \in Threads :
        (t # u /\ th[t].system = th[u].system) => ~(HoldsScan(t) /\ HoldsScan(u))

\* the query of thread t matches files that are in the directories of its
\* collection as they are now
MatchesPresent(t) ==
    RunQuery(th[t].query, BuiltNow(th[t].system), th[t].max_results).val # <<>>

\* C16: however a search interleaves with clear_cache calls of other threads,
\* it raises nothing, and it returns records whenever its query matches files
\* present in the directories of the collection.
C16_SearchSurvivesClear ==
    \A t \in Threads :
        (SearchDone(t) /\ MatchesPresent(t)) =>
            (th[t].ret.st = "ok" /\ th[t].ret.val # <<>>)

\* max(1, ceil(0.6 * n))
CeilRequired(n) == Max(1, (n * 6 + 9) \div 10)

\* at least max(1, ceil(0.6 n)) of the query's words of two characters or more
\* are in the file name, compared in lower case or with the diacritics stripped
EnoughWords(query, filename) ==
    LET words == SelectWords(Split(Lower(query)))
        norm_words == SelectWords(Split(_normalize_text(query)))
    IN  \/ CountWordsIn(words, Lower(filename)) >= CeilRequired(Len(words))
        \/ CountWordsIn(norm_words, _normalize_text(filename))
               >= CeilRequired(Len(norm_words))

\* C17: for a query of at least 3 characters with n >= 1 words of two
\* characters or more, every record a search returns has at least
\* max(1, ceil(0.6 n)) of those words in its file name (both, for n = 2).
C17_WordsRequired ==
    \A t \in Threads :
        (/\ SearchDone(t) /\ th[t].ret.st = "ok"
         /\ Len(Strip(th[t].query)) >= 3
         /\ Len(SelectWords(Split(Lower(th[t].query)))) >= 1) =>
            \A i \in DOMAIN th[t].ret.ranked :
                EnoughWords(th[t].query, th[t].ret.ranked[i].filename.v)

\* the characters of the query that are not whitespace
NonSpaceCount(query) == Cardinality({i \in DOMAIN query : ~IsSpace(query[i])})

\* C18: a query with fewer than 3 non-whitespace characters is never rejected
\* by the pre-filter: the search keeps every indexed record whose score
\* reaches the threshold.
C18_ShortQueryPasses ==
    \A t \in Threads :
        (/\ SearchDone(t) /\ th[t].ret.st = "ok"
         /\ ~OnlyWhitespace(th[t].query)
         /\ NonSpaceCount(th[t].query) < 3) =>
            LET recs == AllRecords(th[t].matches.v) IN
            Len(th[t].ret.ranked) =
                Cardinality({k \in DOMAIN recs :
                    fuzz[<<Lower(th[t].query), Lower(recs[k].filename.v)>>]
                        >= DEFAULT_FUZZY_THRESHOLD})

\* modification time and size of the first n regular files of a traversal
FirstFiles(entries, n) ==
    LET regular == SelectSeq(entries, IsFileEntry) IN
    [i \in 1..Min(n, Len(regular)) |-> <<regular[i].mtime, regular[i].size>>]

\* what the fingerprint is to cover: the directory's own modification time
\* and size, and those of its first 100 regular files
Covered(directory) ==
    <<directory.mtime, directory.size,
      FirstFiles(directory.entries, DIRECTORY_SAMPLE_SIZE)>>

\* C19: whenever an existing directory changes in its own modification time or
\* size, or in the modification time or size of one of the first 100 regular
\* files of its traversal, its fingerprint changes (so that the comparison of
\* the next load fails).
C19_FingerprintCovers ==
    [][\A s \in Systems, source \in Sources :
          (/\ dirs[s][source].exists /\ dirs'[s][source].exists
           /\ Covered(dirs'[s][source]) # Covered(dirs[s][source])) =>
              _calculate_dir_hash(dirs'[s][source])
                  # _calculate_dir_hash(dirs[s][source])]_vars

\* thread t has composed a cache record, and the directories of its collection
\* are as they were when it fingerprinted them
RecordComposed(t) ==
    /\ th[t].op = "search"
    /\ th[t].pc \in {"sv_open", "sv_write", "sv_rename"}
    /\ ~th[t].dirty

\* C20: the index in a cache record that save composes is the scan of the
\* directory state its fingerprints were taken from, whatever happened to the
\* directories between the scan and the save.
C20_RecordPairsScanWithFingerprints ==
    \A t \in Threads :
        RecordComposed(t) =>
            th[t].cache_data =
                CacheData(BuiltNow(th[t].system),
                          _calculate_dir_hash(dirs[th[t].system].official),
                          _calculate_dir_hash(dirs[th[t].system].translations))

\* the places inside a with self._index_lock block
LockedPcs == {"ei_check", "lc_store", "bi_store", "sv_get", "s_get",
              "cc_pop", "ca_clear", "gs_body"}

\* the places where a thread waits to enter one
WaitingPcs == {"ei_lock", "lc_lock", "bi_lock", "sv_lock", "s_lock",
               "cc_lock", "ca_lock", "gs_lock"}

\* C21: with the threads calling search, clear_cache and get_stats at the same
\* time and each kept running by the scheduler, the lock is held only by a
\* thread inside a locked block (never by one that has returned, raised or
\* waits for it), and every call that has begun ends, by return or by error.
C21_EveryCallReturns ==
    /\ [](\A t \in Threads : (lock = t) <=> (th[t].pc \in LockedPcs))
    /\ \A t \in Threads : (th[t].pc # "idle") ~> (th[t].pc = "done")

\* one thread is inside a locked block while the other waits to enter one
C21_Witness ==
    \E t, u \in Threads :
        /\ t # u
        /\ lock = t /\ th[t].pc \in LockedPcs
        /\ th[u].pc \in WaitingPcs

====
